---------------------------- MODULE Spec2Model ----------------------------
(***************************************************************************)
(* A model of goodman_focus/goodman_focus.py: get_peaks (thresholding and  *)
(* local maxima), get_fwhm (per-peak fit loop and sigma-clipped mean) and  *)
(* GetFocus (find_best_focus, _fit, _get_local_minimum).                   *)
(*                                                                         *)
(* Numbers.  The program computes in float64.  The model computes the same *)
(* expressions exactly, over integers: every quantity is kept as an        *)
(* integer multiple of a fixed unit, and a comparison of two quotients is  *)
(* made after multiplying both sides by the (positive) denominators.       *)
(* Arrays are functions over 0..n-1, as in the source; lists that the      *)
(* source builds with append are sequences.                                *)
(***************************************************************************)
EXTENDS Integers, Sequences, FiniteSets

VARIABLES
    \* get_peaks
    profile,        \* background-subtracted profile (line 157)
    kept,           \* the np.where condition of line 160, per sample
    filtered_data,  \* thresholded profile (lines 159-163)
    peaks,          \* positions returned by argrelmax (line 165)
    values,         \* profile values at the peaks (line 173)
    gp_pc,          \* "input" | "returned" | "off"
    \* get_fwhm
    model_kind,     \* model.__class__.name: "Gaussian1D" | "Moffat1D"
    feature_model,  \* the caller's model object (self.feature_model)
    model,          \* the local name "model": parameters of the object it is bound to
    aliased,        \* TRUE while "model" is still the caller's object
    fit_start,      \* parameters the last call of the fitter started from
    peak_index,     \* number of peaks fitted so far
    all_fwhm,       \* line 220
    cleaned_fwhm,   \* line 259 / 266
    fwhm_result,    \* the value returned
    gf_pc,          \* "wait" | "loop" | "returned" | "off"
    \* GetFocus
    group,          \* the focus group being processed
    file_index,     \* number of files of the group processed so far
    fwhm_log,       \* what get_fwhm returned for each file (the record of line 409)
    focus_data,     \* line 393
    df,             \* the sorted samples handed to _fit (line 428)
    start_poly,     \* the model handed to the fitter at line 375
    polynomial,     \* self.polynomial
    nderiv,         \* len(derivative) at line 387
    best_index,     \* np.argmin(np.abs(derivative))
    best_focus,     \* self.__best_focus
    error,          \* the exception find_best_focus ended with, or "none"
    fg_pc           \* "idle" | "files" | "done" | "raised" | "off"

peakVars == <<profile, kept, filtered_data, peaks, values, gp_pc>>

fwhmVars == <<model_kind, feature_model, model, aliased, fit_start, peak_index,
              all_fwhm, cleaned_fwhm, fwhm_result, gf_pc>>

focusVars == <<group, file_index, fwhm_log, focus_data, df, start_poly,
               polynomial, nderiv, best_index, best_focus, error, fg_pc>>

vars == <<peakVars, fwhmVars, focusVars>>

-----------------------------------------------------------------------------
(* Bounds and input sets *)

\* Length of the profiles of SpecPeaks.
ProfLen == 10

ProfVals == {-3, 0, 100}

\* Largest number of peaks of an image of SpecImage.
MaxPeaks == 8

\* Number of files of a focus group of Spec.
NumFiles == 6

-----------------------------------------------------------------------------
(* Helpers *)

Abs(x) == IF x < 0 THEN -x ELSE x

MinOf(S) == CHOOSE x \in S : \A y \in S : x <= y

MaxOf(S) == CHOOSE x \in S : \A y \in S : y <= x

Range(f) == {f[i] : i \in DOMAIN f}

RECURSIVE SumSeq(_)
SumSeq(xs) == IF xs = <<>> THEN 0 ELSE Head(xs) + SumSeq(Tail(xs))

-----------------------------------------------------------------------------
(* get_peaks, lines 157-173 *)

\* The threshold of line 160 is profile.min() + 0.03 * profile.max(); both
\* sides of "profile > threshold" are multiplied by 100.
Threshold100(prof) == 100 * MinOf(Range(prof)) + 3 * MaxOf(Range(prof))

\* A variant that keeps a sample equal to the threshold.
KeepCondAtThreshold(prof) ==
    LET t == Threshold100(prof)
    IN  [i \in DOMAIN prof |-> 100 * prof[i] >= t]

KeepCond(prof) ==
    LET t == Threshold100(prof)
    IN  [i \in DOMAIN prof |-> 100 * prof[i] > t]

\* np.where(cond, profile, None), then None replaced by 0 (lines 159-163).
Filtered(prof) ==
    LET c == KeepCond(prof)
    IN  [i \in DOMAIN prof |-> IF c[i] THEN prof[i] ELSE 0]

\* numpy take(..., mode='clip'): an index outside the array is the nearest end.
Clip(j, n) == IF j < 0 THEN 0 ELSE IF j > n - 1 THEN n - 1 ELSE j

\* scipy.signal.argrelmax(data, order=5): comparator np.greater, mode 'clip'.
Order == 5

\* A variant with the comparator np.greater_equal.
IsRelMaxOrEqual(data, n, i) ==
    \A shift \in 1..Order :
        /\ data[i] >= data[Clip(i + shift, n)]
        /\ data[i] >= data[Clip(i - shift, n)]

IsRelMax(data, n, i) ==
    \A shift \in 1..Order :
        /\ data[i] > data[Clip(i + shift, n)]
        /\ data[i] > data[Clip(i - shift, n)]

ArgRelMax(data, n) ==
    SelectSeq([k \in 1..n |-> k - 1], LAMBDA i : IsRelMax(data, n, i))

PeakValues(prof, pk) == [k \in 1..Len(pk) |-> prof[pk[k]]]

ProfSize(prof) == Cardinality(DOMAIN prof)

-----------------------------------------------------------------------------
(* get_fwhm, lines 219-278 *)

\* A float NaN: a value no width takes.
NaN == -1

\* Widths a fit can end with.  FWHM values are written in units of the
\* model's FWHM per unit width (2.3548 for Gaussian1D; 2 for Moffat1D at
\* alpha = 1), so that a fitted width w has FWHM w in these units.
FitShapes == {1, 10}

Fwhm(mdl) == mdl.shape

\* models.Gaussian1D() and models.Moffat1D() as constructed in __init__.
DefaultShape == 1

DefaultModel == [amplitude |-> 1, center |-> 0, shape |-> DefaultShape]

\* line 226
StddevSeed == 5

\* Lines 222-241: the parameters assigned before the fit of peak k (1-based
\* position in peaks); what is not assigned keeps the value "mdl" holds.
SetInitial(kind, mdl, k, pk, vals) ==
    IF kind = "Gaussian1D"
    THEN [amplitude |-> vals[k], center |-> pk[k], shape |-> StddevSeed]
    ELSE [amplitude |-> vals[k], center |-> pk[k], shape |-> mdl.shape]

\* A result: None, or the rational num/den.
None == [none |-> TRUE, num |-> 0, den |-> 1]

Value(n, d) == [none |-> FALSE, num |-> n, den |-> d]

\* k-th smallest element (k in 1..Len(xs)) of a sequence of numbers.
KthSmallest(xs, k) ==
    MinOf({x \in Range(xs) :
              Cardinality({j \in DOMAIN xs : xs[j] <= x}) >= k})

\* Twice np.ma.median: the mean of the two middle elements, doubled.
Median2(xs) ==
    LET n == Len(xs)
    IN  KthSmallest(xs, (n + 1) \div 2) + KthSmallest(xs, (n \div 2) + 1)

\* n^2 times np.std(xs)^2 (population variance).
VarN2(xs) ==
    LET n == Len(xs)
    IN  n * SumSeq([j \in 1..n |-> xs[j] * xs[j]]) - SumSeq(xs) * SumSeq(xs)

\* sigma_clip(xs, sigma=3, iters=1): the mask.  x is masked when
\* x < median - 3 std or x > median + 3 std, that is |x - median| > 3 std;
\* squared and multiplied by 4 n^2.  An empty input is returned as it is.
SigmaClipMask2(xs) ==
    LET n == Len(xs)
    IN  [j \in 1..n |->
            (2 * xs[j] - Median2(xs)) * (2 * xs[j] - Median2(xs)) * n * n
                > 16 * VarN2(xs)]

SigmaClipMask(xs) ==
    LET n == Len(xs)
    IN  [j \in 1..n |->
            (2 * xs[j] - Median2(xs)) * (2 * xs[j] - Median2(xs)) * n * n
                > 36 * VarN2(xs)]

Cleaned(xs) ==
    LET mask == SigmaClipMask(xs)
        idx  == SelectSeq([j \in 1..Len(xs) |-> j], LAMBDA j : ~mask[j])
    IN  [j \in 1..Len(idx) |-> xs[idx[j]]]

\* A variant without the guard of line 268: the mean of nothing.
GetFwhmReturnUnguarded(fw) ==
    IF Len(fw) = 1
    THEN Value(fw[1], 1)
    ELSE Value(SumSeq(Cleaned(fw)), Len(Cleaned(fw)))

\* Lines 250-278.
GetFwhmReturn(fw) ==
    IF Len(fw) = 1
    THEN Value(fw[1], 1)
    ELSE IF Len(Cleaned(fw)) > 0
         THEN Value(SumSeq(Cleaned(fw)), Len(Cleaned(fw)))
         ELSE None

-----------------------------------------------------------------------------
(* GetFocus: _fit and _get_local_minimum, lines 369-389 *)

(***************************************************************************)
(* Focus values and curves.  The focus values of a group are the multiples *)
(* k * GridSteps of a fine coordinate z, k = 0, 1, ...; one unit of z is   *)
(* p/q units of focus (CAM_FOC), p/q being the group's unit.  So the       *)
(* np.linspace grid between any two focus values of a group falls on       *)
(* integers z.  A polynomial is written a * (z - z0)^2 + c in z; the       *)
(* FWHM of a group's images follow the group's curve.                      *)
(***************************************************************************)

\* np.linspace(x1, x2, 2000), line 381
GridN == 2000

GridSteps == GridN - 1

\* models.Polynomial1D(degree=5), line 317
PolyDegree == 5

\* scipy.optimize.leastsq needs as many data points as parameters.
NumParams == PolyDegree + 1

\* Polynomial1D(degree=5) as constructed: every coefficient 0.
ZeroPoly == [a |-> 0, z0 |-> 0, c |-> 0, p |-> 1, q |-> 1]

NoFocus == [none |-> TRUE, z |-> 0, p |-> 1, q |-> 1]

Focus(z, poly) == [none |-> FALSE, z |-> z, p |-> poly.p, q |-> poly.q]

PolyAt(poly, z) == poly.a * (z - poly.z0) * (z - poly.z0) + poly.c

\* Integers beyond 32 bits, as hi * Base + lo with 0 <= lo < Base.
Base == 10 ^ 5

Wide(h, l) == [hi |-> h + ((l - (l % Base)) \div Base), lo |-> l % Base]

WideAbs(w) ==
    IF w.hi >= 0 THEN w
    ELSE IF w.lo = 0 THEN [hi |-> -w.hi, lo |-> 0]
    ELSE [hi |-> -w.hi - 1, lo |-> Base - w.lo]

WideLess(u, v) == u.hi < v.hi \/ (u.hi = v.hi /\ u.lo < v.lo)

\* num * m1 - den * m0, for m1, m0 >= 0.
ScaledDiff(num, m1, den, m0) ==
    Wide(num * (m1 \div Base) - den * (m0 \div Base),
         num * (m1 % Base) - den * (m0 % Base))

\* The grid of line 381 between z1 and z2 = z1 + GridSteps * w, in z.
GridAt(z1, w, i) == z1 + i * w

\* Line 385: modeled_data[i+1] - modeled_data[i] / (x_axis[i+1] - x_axis[i]).
\* The step of the grid is w * p / q, so the entry is
\* m[i+1] - m[i] * q / (w * p); here multiplied by w * p > 0, and taken
\* in absolute value (line 387).
AbsDerivative(poly, z1, w, i) ==
    WideAbs(ScaledDiff(w * poly.p, PolyAt(poly, GridAt(z1, w, i + 1)),
                       poly.q, PolyAt(poly, GridAt(z1, w, i))))

\* np.argmin: the first index of the smallest entry.
Closer(u, v) == IF WideLess(v.val, u.val) THEN v ELSE u

RECURSIVE ArgMinAbs(_, _, _, _, _)
ArgMinAbs(poly, z1, w, first, last) ==
    IF first = last
    THEN [idx |-> first, val |-> AbsDerivative(poly, z1, w, first)]
    ELSE Closer(ArgMinAbs(poly, z1, w, first, (first + last) \div 2),
                ArgMinAbs(poly, z1, w, ((first + last) \div 2) + 1, last))

\* A variant of the loop of line 384 that runs over every grid position.
DerivativeLenAll == GridN

\* range(len(modeled_data) - 1), line 384
DerivativeLen == GridN - 1

\* _get_local_minimum(x1, x2) for x1 < x2: the index chosen at line 387.
LocalMinimumIndex(poly, z1, z2) ==
    ArgMinAbs(poly, z1, (z2 - z1) \div GridSteps, 0, DerivativeLen - 1).idx

FocusOf(samples) == {samples[j].focus : j \in DOMAIN samples}

\* The exception _fit ends with, or "none": np.max of an empty list
\* (line 373), or leastsq given fewer points than parameters (line 375).
FitError(samples) ==
    IF Len(samples) = 0 THEN "ValueError"
    ELSE IF Len(samples) < NumParams THEN "TypeError"
    ELSE "none"

\* The least-squares polynomial of degree 5 through at least 6 samples of
\* distinct focus lying on the curve of the group: that curve.
FittedPolynomial(start, samples, g) == g.curve

-----------------------------------------------------------------------------
(* GetFocus: find_best_focus, lines 391-429, and __call__ *)

\* The focus group catalogue: the curve the FWHM of the images follow and
\* the unit of focus.  With 6 files the span of a group is 5 * GridSteps,
\* and the grid step is 5 p / q: 3/20, 2, 201/200 and 1.  The last curve
\* has its minimum at the largest focus of the group.
Groups ==
    { [curve |-> [a |-> 1, z0 |-> 2 * GridSteps, c |-> 16700000, p |-> 3, q |-> 100]],
      [curve |-> [a |-> 1, z0 |-> 3 * GridSteps, c |-> 375000, p |-> 2, q |-> 5]],
      [curve |-> [a |-> 1, z0 |-> 3 * GridSteps, c |-> 375000, p |-> 201, q |-> 1000]],
      [curve |-> [a |-> 1, z0 |-> 5 * GridSteps, c |-> 100000, p |-> 1, q |-> 5]] }

\* group.file.tolist(): files 1..NumFiles; the focus of file j, not in order.
FileFocus(j) == ((5 * j) % NumFiles) * GridSteps

\* What get_fwhm returned for a file.
Undefined == [none |-> TRUE, val |-> 0]

Defined(v) == [none |-> FALSE, val |-> v]

\* Line 413, "if self.fwhm:": None and 0.0 are both false.
Truthy(fwhm) == ~fwhm.none /\ fwhm.val # 0

\* fdf.sort_values(by='focus'), line 422.
RECURSIVE SortByFocus(_)
SortByFocus(rows) ==
    IF rows = <<>> THEN <<>>
    ELSE LET j == CHOOSE j \in DOMAIN rows :
                     \A k \in DOMAIN rows : rows[j].focus <= rows[k].focus
         IN  <<rows[j]>> \o
             SortByFocus([k \in 1..(Len(rows) - 1) |->
                            IF k < j THEN rows[k] ELSE rows[k + 1]])

FocusOffState ==
    /\ group = CHOOSE g \in Groups : TRUE
    /\ file_index = 0
    /\ fwhm_log = <<>>
    /\ focus_data = <<>>
    /\ df = <<>>
    /\ start_poly = ZeroPoly
    /\ polynomial = ZeroPoly
    /\ nderiv = 0
    /\ best_index = 0
    /\ best_focus = NoFocus

FocusOff == FocusOffState /\ error = "none" /\ fg_pc = "off"

\* The state __init__ leaves (lines 311-319).
Init ==
    /\ FocusOffState
    /\ error = "none"
    /\ fg_pc = "idle"
    /\ profile = <<>>
    /\ kept = <<>>
    /\ filtered_data = <<>>
    /\ peaks = <<>>
    /\ values = <<>>
    /\ gp_pc = "off"
    /\ model_kind = "Gaussian1D"
    /\ feature_model = DefaultModel
    /\ model = DefaultModel
    /\ aliased = TRUE
    /\ fit_start = DefaultModel
    /\ peak_index = 0
    /\ all_fwhm = <<>>
    /\ cleaned_fwhm = <<>>
    /\ fwhm_result = None
    /\ gf_pc = "off"

\* __call__ passes the next group to find_best_focus (lines 361-364, 393).
StartGroup ==
    /\ fg_pc \in {"idle", "done"}
    /\ \E g \in Groups : group' = g
    /\ file_index' = 0
    /\ fwhm_log' = <<>>
    /\ focus_data' = <<>>
    /\ fg_pc' = "files"
    /\ UNCHANGED <<df, start_poly, polynomial, nderiv, best_index, best_focus,
                   error, peakVars, fwhmVars>>

\* One iteration of the loop of lines 394-419.  get_peaks and get_fwhm on
\* the file's image are the subject of SpecImage; here their result is an
\* input: None, 0, or the value of the group's curve at the file's focus.
ProcessFile ==
    /\ fg_pc = "files"
    /\ file_index < NumFiles
    /\ LET j == file_index + 1
       IN  \E fwhm \in {Undefined, Defined(0),
                        Defined(PolyAt(group.curve, FileFocus(j)))} :
              /\ fwhm_log' = Append(fwhm_log, fwhm)
              /\ focus_data' =
                    IF Truthy(fwhm)
                    THEN Append(focus_data,
                                [file |-> j, fwhm |-> fwhm.val, focus |-> FileFocus(j)])
                    ELSE focus_data
              /\ file_index' = j
    /\ UNCHANGED <<group, df, start_poly, polynomial, nderiv, best_index,
                   best_focus, error, fg_pc, peakVars, fwhmVars>>

\* Lines 421-429: the samples are sorted and handed to _fit, which fits
\* self.polynomial and then calls _get_local_minimum.
FitGroup ==
    /\ fg_pc = "files"
    /\ file_index = NumFiles
    /\ df' = SortByFocus(focus_data)
    /\ error' = FitError(df')
    /\ IF error' = "ValueError"
       THEN /\ fg_pc' = "raised"
            /\ UNCHANGED <<start_poly, polynomial, nderiv, best_index, best_focus>>
       ELSE /\ start_poly' = polynomial
            /\ IF error' = "TypeError"
               THEN /\ fg_pc' = "raised"
                    /\ UNCHANGED <<polynomial, nderiv, best_index, best_focus>>
               ELSE /\ fg_pc' = "done"
                    /\ polynomial' = FittedPolynomial(polynomial, df', group)
                    /\ nderiv' = DerivativeLen
                    /\ best_index' = LocalMinimumIndex(polynomial',
                                                       MinOf(FocusOf(df')),
                                                       MaxOf(FocusOf(df')))
                    /\ best_focus' =
                          Focus(GridAt(MinOf(FocusOf(df')),
                                       (MaxOf(FocusOf(df')) - MinOf(FocusOf(df')))
                                           \div GridSteps,
                                       best_index'),
                                polynomial')
    /\ UNCHANGED <<group, file_index, fwhm_log, focus_data, peakVars, fwhmVars>>

Next == StartGroup \/ ProcessFile \/ FitGroup

Spec == Init /\ [][Next]_vars

-----------------------------------------------------------------------------
(* Specification of get_peaks alone: every profile of ProfLen samples *)

FwhmOff ==
    /\ model_kind = "Gaussian1D"
    /\ feature_model = DefaultModel
    /\ model = DefaultModel
    /\ aliased = TRUE
    /\ fit_start = DefaultModel
    /\ peak_index = 0
    /\ all_fwhm = <<>>
    /\ cleaned_fwhm = <<>>
    /\ fwhm_result = None
    /\ gf_pc = "off"

PeaksInit ==
    /\ profile \in [0..(ProfLen - 1) -> ProfVals]
    /\ kept = [i \in 0..(ProfLen - 1) |-> FALSE]
    /\ filtered_data = [i \in 0..(ProfLen - 1) |-> 0]
    /\ peaks = <<>>
    /\ values = <<>>
    /\ gp_pc = "input"
    /\ FwhmOff
    /\ FocusOff

GetPeaks ==
    /\ gp_pc = "input"
    /\ kept' = KeepCond(profile)
    /\ filtered_data' = Filtered(profile)
    /\ peaks' = ArgRelMax(filtered_data', ProfSize(profile))
    /\ values' = PeakValues(profile, peaks')
    /\ gp_pc' = "returned"
    /\ gf_pc' = IF gf_pc = "wait" THEN "loop" ELSE gf_pc
    /\ UNCHANGED <<profile, model_kind, feature_model, model, aliased,
                   fit_start, peak_index, all_fwhm, cleaned_fwhm, fwhm_result,
                   focusVars>>

SpecPeaks == PeaksInit /\ [][GetPeaks]_vars

-----------------------------------------------------------------------------
(* Specification of one image: get_peaks, then get_fwhm on its result *)

ImgLen == 6 * MaxPeaks + 2

\* A profile with n lines, 6 samples apart, line k of height 100 + k over a
\* background of 0; and the flat profiles.
LineProfile(n) ==
    [i \in 0..(ImgLen - 1) |->
        IF i % 6 = 2 /\ i \div 6 < n THEN 101 + (i \div 6) ELSE 0]

FlatProfile(c) == [i \in 0..(ImgLen - 1) |-> c]

ImageProfiles ==
    {LineProfile(n) : n \in 0..MaxPeaks} \cup {FlatProfile(c) : c \in ProfVals}

ImageInit ==
    /\ profile \in ImageProfiles
    /\ kept = [i \in 0..(ImgLen - 1) |-> FALSE]
    /\ filtered_data = [i \in 0..(ImgLen - 1) |-> 0]
    /\ peaks = <<>>
    /\ values = <<>>
    /\ gp_pc = "input"
    /\ model_kind \in {"Gaussian1D", "Moffat1D"}
    /\ feature_model = DefaultModel
    /\ model = DefaultModel
    /\ aliased = TRUE
    /\ fit_start = DefaultModel
    /\ peak_index = 0
    /\ all_fwhm = <<>>
    /\ cleaned_fwhm = <<>>
    /\ fwhm_result = None
    /\ gf_pc = "wait"
    /\ FocusOff

\* One iteration of the loop of lines 221-248.  The fitter returns a fitted
\* copy, to which "model" is rebound (line 243); the object passed in keeps
\* the parameters assigned to it.
FitPeak ==
    /\ gf_pc = "loop"
    /\ peak_index < Len(peaks)
    /\ LET k  == peak_index + 1
           m0 == SetInitial(model_kind, model, k, peaks, values)
       IN  /\ fit_start' = m0
           /\ feature_model' = IF aliased THEN m0 ELSE feature_model
           /\ \E s \in FitShapes \cup {NaN} :
                /\ model' = [m0 EXCEPT !.shape = s]
                /\ all_fwhm' = IF Fwhm(model') # NaN
                               THEN Append(all_fwhm, Fwhm(model'))
                               ELSE all_fwhm
           /\ peak_index' = k
    /\ aliased' = FALSE
    /\ UNCHANGED <<peakVars, model_kind, cleaned_fwhm, fwhm_result, gf_pc,
                   focusVars>>

\* Lines 250-278.
ReturnFwhm ==
    /\ gf_pc = "loop"
    /\ peak_index = Len(peaks)
    /\ cleaned_fwhm' = IF Len(all_fwhm) = 1 THEN all_fwhm ELSE Cleaned(all_fwhm)
    /\ fwhm_result' = GetFwhmReturn(all_fwhm)
    /\ gf_pc' = "returned"
    /\ UNCHANGED <<peakVars, model_kind, feature_model, model, aliased,
                   fit_start, peak_index, all_fwhm, focusVars>>

ImageNext == GetPeaks \/ FitPeak \/ ReturnFwhm

SpecImage == ImageInit /\ [][ImageNext]_vars

-----------------------------------------------------------------------------
(* Claims about get_peaks (SpecPeaks) *)

Samples == DOMAIN profile

Dist(i, j) == Abs(i - j)

PeakSet == Range(peaks)

\* Strictly larger than every other thresholded sample within Order positions.
WindowMax(i) ==
    \A j \in Samples : (j # i /\ Dist(i, j) <= Order) => filtered_data[j] < filtered_data[i]

Increasing(sq) == \A a, b \in DOMAIN sq : a < b => sq[a] < sq[b]

\* C10 as stated: the peaks are increasing, each is larger than every other
\* thresholded sample within 5 positions, any two are at least 5 apart,
\* every maximum at least 5 samples away from any larger or equal sample is
\* returned, and values[i] is the profile at peaks[i].
C10_AllMaximaReturned ==
    gp_pc = "returned" =>
        /\ Increasing(peaks)
        /\ \A i \in PeakSet : WindowMax(i)
        /\ \A i, j \in PeakSet : i # j => Dist(i, j) >= Order
        /\ \A i \in Samples :
              (\A j \in Samples :
                  (j # i /\ filtered_data[j] >= filtered_data[i]) => Dist(i, j) >= Order)
                 => i \in PeakSet
        /\ Len(values) = Len(peaks)
        /\ \A k \in DOMAIN peaks : values[k] = profile[peaks[k]]

\* C10 amended: the peaks are, in increasing order, exactly the positions
\* other than the first and the last sample whose thresholded value is
\* strictly larger than every other thresholded sample within 5 positions;
\* so any two are at least 6 apart, and a maximum at the first or last
\* sample, a flat-topped maximum, or one with an equal or larger sample
\* exactly 5 positions away is not returned.
C10_InteriorStrictMaxima ==
    gp_pc = "returned" =>
        /\ Increasing(peaks)
        /\ \A i \in Samples :
              i \in PeakSet <=>
                 (0 < i /\ i < ProfSize(profile) - 1 /\ WindowMax(i))
        /\ \A i, j \in PeakSet : i # j => Dist(i, j) >= Order + 1
        /\ Len(values) = Len(peaks)
        /\ \A k \in DOMAIN peaks : values[k] = profile[peaks[k]]

\* A peak returned, while the first sample, which is kept and larger than
\* every sample within 5 positions of it, is not.
C10_Witness ==
    /\ gp_pc = "returned"
    /\ Len(peaks) = 1
    /\ ~(0 \in PeakSet)
    /\ filtered_data[0] > 0
    /\ \A j \in Samples : (j # 0 /\ j <= Order) => filtered_data[j] < filtered_data[0]

-----------------------------------------------------------------------------
(* Claims about get_fwhm (SpecImage) *)

IsFlat(prof) == \A i, j \in DOMAIN prof : prof[i] = prof[j]

Count(xs, v) == Cardinality({j \in DOMAIN xs : xs[j] = v})

\* The good FWHM, and the corrupted one: 10 times the good one.
GoodValue == MinOf(FitShapes)

CorruptValue == 10 * GoodValue

\* all_fwhm holds n >= 1 good values and exactly one corrupted value.
OneCorrupted ==
    /\ Count(all_fwhm, CorruptValue) = 1
    /\ Count(all_fwhm, GoodValue) = Len(all_fwhm) - 1
    /\ Len(all_fwhm) >= 2

\* C5 as stated: with two or more values of which exactly one is corrupted,
\* the corrupted value is discarded and the result is the mean of the others.
C5_OutlierDiscarded ==
    (gf_pc = "returned" /\ OneCorrupted) =>
        /\ Count(cleaned_fwhm, CorruptValue) = 0
        /\ fwhm_result = Value(GoodValue * (Len(all_fwhm) - 1), Len(all_fwhm) - 1)

\* C5 amended: the corrupted value is discarded, and the result is the mean
\* of the good values, when there are at least 7 good values; with 1 to 6
\* good values nothing is discarded and the result is the mean of all the
\* values, the corrupted one included.
C5_OutlierDiscardedFromSeven ==
    (gf_pc = "returned" /\ OneCorrupted) =>
        LET good == Len(all_fwhm) - 1
        IN  IF good >= 7
            THEN /\ Count(cleaned_fwhm, CorruptValue) = 0
                 /\ Len(cleaned_fwhm) = good
                 /\ fwhm_result = Value(GoodValue * good, good)
            ELSE /\ cleaned_fwhm = all_fwhm
                 /\ fwhm_result = Value(GoodValue * good + CorruptValue, good + 1)

C5_Witness ==
    /\ gf_pc = "returned"
    /\ OneCorrupted
    /\ Len(all_fwhm) = 8
    /\ Len(cleaned_fwhm) = 7
    /\ fwhm_result = Value(7 * GoodValue, 7)

\* C8: every fit starts from amplitude = peak value, center = peak position
\* and the width seed of the model kind (stddev 5, or the Moffat defaults),
\* whatever was fitted before.
C8_StartFromPeakAlone ==
    (gf_pc \in {"loop", "returned"} /\ peak_index >= 1) =>
        fit_start = [amplitude |-> values[peak_index],
                     center    |-> peaks[peak_index],
                     shape     |-> IF model_kind = "Gaussian1D"
                                   THEN StddevSeed ELSE DefaultShape]

-----------------------------------------------------------------------------
(* Claims about GetFocus (Spec) *)

Returned == fg_pc = "done"

Ended == fg_pc \in {"done", "raised"}

MinFocus == MinOf(FocusOf(df))

MaxFocus == MaxOf(FocusOf(df))

\* The grid step of the last fit, in z.
GridStep == (MaxFocus - MinFocus) \div GridSteps

\* "A few grid steps": one hundredth of the grid.
Tolerance == GridN \div 100

\* C1: when the samples follow a quadratic whose minimum F0 lies inside
\* [min(focus), max(focus)], the best focus returned is within a few grid
\* steps of F0.
C1_BestFocusNearMinimum ==
    (Returned /\ MinFocus <= polynomial.z0 /\ polynomial.z0 <= MaxFocus) =>
        Abs(best_focus.z - polynomial.z0) <= Tolerance * GridStep

\* C2: with fewer samples than the fit needs, find_best_focus ends without
\* raising and with an undefined best focus.
C2_FewSamplesUndefined ==
    (Ended /\ Len(df) < NumParams) => (error = "none" /\ best_focus.none)

C6_NoStateCarriedOver ==
    /\ fg_pc = "files" => (best_focus.none /\ polynomial = ZeroPoly)
    /\ Returned => start_poly = ZeroPoly

SamplesOf(j) == {k \in DOMAIN df : df[k].file = j}

\* C7: an image yields exactly one sample if get_fwhm returned a defined
\* FWHM for it, 0 included, and none otherwise; the samples handed to the
\* solver are in ascending order of focus.
C7_SampleIffDefined ==
    Ended =>
        /\ \A j \in 1..NumFiles :
              Cardinality(SamplesOf(j)) = IF fwhm_log[j].none THEN 0 ELSE 1
        /\ \A k \in 1..(Len(df) - 1) : df[k].focus <= df[k + 1].focus

=============================================================================
